---- MODULE Spec2Model ----
(***************************************************************************)
(* procon_rs: the template resolution, loading, substitution and           *)
(* materialization engine behind `procon_rs new`.                          *)
(*                                                                         *)
(* Text is modelled as a sequence of chunks.  A chunk stands for a run of  *)
(* characters; the concatenation of the chunks is the Rust string.  The    *)
(* three placeholder tokens are the chunk triples "{{" NAME "}}", so that  *)
(* a token can be assembled from pieces, as it can in a Rust string.       *)
(***************************************************************************)
EXTENDS Integers, Sequences, FiniteSets, TLC

VARIABLES
    pc,         \* where the operation under way stands
    env,        \* the process environment and the template directories on disk
    fs,         \* the filesystem projects are written to
    fs0,        \* fs as the operation under way found it
    calls,      \* the number of create_project invocations so far
    created,    \* the destinations earlier invocations returned Ok for
    args,       \* NewCommandArgs of the invocation under way
    atCall,     \* what held of the destination when the invocation began
    phase,      \* the step of the operation that ran last
    project_path, \* the effective destination (dest_dir of copy_to)
    source,     \* where load_template took the Template from
    template,   \* the Template load_template returned
    processed,  \* the Template process_template_variables returned (self of copy_to)
    todo,       \* copy_to: the keys its loop has not visited yet
    written,    \* the paths the operation under way has created or written
    err,        \* the error the operation returned
    ldTree,     \* loading: the source directory tree handed to load_from_path
    ldOrder,    \* loading: the order in which read_dir yields sibling entries
    ldResult,   \* loading: what load_from_path returned
    sbFiles,    \* substitution: the Template handed to process_template_variables
    sbMap,      \* substitution: [name, cmake, cpp] replacement values
    sbOnce,     \* substitution: the result of one application
    sbTwice,    \* substitution: the result of applying it to sbOnce again
    config,     \* the Config in hand (the local `config` of execute)
    cfLast      \* configuration: the last get or set and what it returned

vars == <<pc, env, fs, fs0, calls, created, args, atCall, phase, project_path, source,
         template, processed, todo, written, err, ldTree, ldOrder, ldResult, sbFiles, sbMap, sbOnce, sbTwice,
         config, cfLast>>

ldVars == <<ldTree, ldOrder, ldResult>>
newVars == <<env, fs, fs0, calls, created, args, atCall, phase, project_path, source,
            template, processed, todo, written, err>>
sbVars == <<sbFiles, sbMap, sbOnce, sbTwice>>
cfVars == <<config, cfLast>>

Null == "null"

-----------------------------------------------------------------------------
(* Bounds *)

MaxContentLen == 5      \* chunks in one file's content
MaxValueLen == 1        \* chunks in one replacement value

-----------------------------------------------------------------------------
(* Text *)

TOKEN_PROJECT_NAME == <<"{{", "PROJECT_NAME", "}}">>
TOKEN_CMAKE_VERSION == <<"{{", "CMAKE_VERSION", "}}">>
TOKEN_CPP_STANDARD == <<"{{", "CPP_STANDARD", "}}">>

Tokens == {TOKEN_PROJECT_NAME, TOKEN_CMAKE_VERSION, TOKEN_CPP_STANDARD}

\* the chunks a placeholder token is made of
TokenChunks == {"{{", "}}", "PROJECT_NAME", "CMAKE_VERSION", "CPP_STANDARD"}

SeqsUpTo(S, n) == UNION {[1..k -> S] : k \in 0..n}

\* s contains pat as a contiguous subsequence (str::contains)
Contains(s, pat) ==
    \E i \in 1..(Len(s) - Len(pat) + 1) : SubSeq(s, i, i + Len(pat) - 1) = pat

\* a replace that stops after the first match (str::replacen with count 1)
RECURSIVE StrReplaceFirst(_, _, _)
StrReplaceFirst(s, from, to) ==
    IF Len(s) < Len(from) THEN s
    ELSE IF SubSeq(s, 1, Len(from)) = from
         THEN to \o SubSeq(s, Len(from) + 1, Len(s))
         ELSE <<Head(s)>> \o StrReplaceFirst(Tail(s), from, to)

\* str::replace: every non-overlapping match of `from`, left to right, becomes `to`;
\* the scan goes on after the match, never inside the inserted text
RECURSIVE StrReplace(_, _, _)
StrReplace(s, from, to) ==
    IF Len(s) < Len(from) THEN s
    ELSE IF SubSeq(s, 1, Len(from)) = from
         THEN to \o StrReplace(SubSeq(s, Len(from) + 1, Len(s)), from, to)
         ELSE <<Head(s)>> \o StrReplace(Tail(s), from, to)

-----------------------------------------------------------------------------
(* Variable substitution *)

\* one file's content through the three chained replace calls
ProcessContent(content, project_name, project) ==
    StrReplace(
        StrReplace(
            StrReplace(content, TOKEN_PROJECT_NAME, project_name),
            TOKEN_CMAKE_VERSION, project.cmake_minimum_version),
        TOKEN_CPP_STANDARD, project.cpp_standard)

\* a substitution of the project name alone, as Template::apply_variables does it
process_template_variables_NameOnly(files, project_name, project) ==
    [k \in DOMAIN files |-> StrReplace(files[k], TOKEN_PROJECT_NAME, project_name)]

\* NewCommand::process_template_variables: a new Template, same keys
process_template_variables(files, project_name, project) ==
    [k \in DOMAIN files |-> ProcessContent(files[k], project_name, project)]

\* an apply_variables that also fills in the CMake version
apply_variables_AllTokens(files, project_name) ==
    [k \in DOMAIN files |->
        StrReplace(StrReplace(files[k], TOKEN_PROJECT_NAME, project_name),
                   TOKEN_CMAKE_VERSION, <<"3.16">>)]

\* Template::apply_variables: a new Template, same keys, self left as it is
apply_variables(files, project_name) ==
    [k \in DOMAIN files |-> StrReplace(files[k], TOKEN_PROJECT_NAME, project_name)]

\* Config::default().project
DefaultProjectConfig == [cpp_standard |-> <<"17">>, cmake_minimum_version |-> <<"3.16">>]

-----------------------------------------------------------------------------
(* Errors (ProconError) and results *)

ProjectExists(name) == [kind |-> "ProjectExists", arg |-> name]
TemplateNotFound(name) == [kind |-> "TemplateNotFound", arg |-> name]
TemplateNotFoundWithHint(name) == [kind |-> "TemplateNotFoundWithHint", arg |-> name]
Io(what) == [kind |-> "Io", arg |-> <<what>>]
ConfigError(msg) == [kind |-> "ConfigError", arg |-> msg]
NoError == [kind |-> "none", arg |-> <<>>]

\* a Template with no files
NoTemplate == <<>>

\* the #[error("...")] formats of ProconError, as Display renders them
to_string(e) ==
    CASE e.kind = "ProjectExists" -> <<"Project '">> \o e.arg \o <<"' already exists">>
      [] e.kind = "TemplateNotFound" -> <<"Template '">> \o e.arg \o <<"' not found">>
      [] e.kind = "Io" -> <<"IO error: ">> \o e.arg
      [] e.kind = "ConfigError" -> <<"Configuration error: ">> \o e.arg
      [] OTHER -> e.arg

Ok(files) == [ok |-> TRUE, files |-> files, err |-> NoError]
Err(e) == [ok |-> FALSE, files |-> <<>>, err |-> e]

-----------------------------------------------------------------------------
(* Source directory trees.  A tree maps each existing path (the sequence of  *)
(* its components below the template directory, <<>> for the directory       *)
(* itself) to its node.  A missing directory is the empty tree.              *)

DirNode == [kind |-> "dir", text |-> <<>>]          \* a directory
DeniedDirNode == [kind |-> "denied", text |-> <<>>] \* a directory read_dir cannot list
BinaryNode == [kind |-> "binary", text |-> <<>>]    \* a file that is not valid UTF-8
TextNode(c) == [kind |-> "text", text |-> c]
AbsentNode == [kind |-> "absent", text |-> <<>>]

ROOT == <<>>
NoTree == <<>>

\* Path::exists, Path::is_dir, Path::is_file
exists(tree, p) == p \in DOMAIN tree
is_dir(tree, p) == exists(tree, p) /\ tree[p].kind \in {"dir", "denied"}
is_file(tree, p) == exists(tree, p) /\ tree[p].kind \in {"text", "binary"}

\* fs::read_to_string: the text, or an error for what is no UTF-8 file
read_to_string(tree, p) ==
    IF exists(tree, p) /\ tree[p].kind = "text" THEN Ok(tree[p].text) ELSE Err(Io("read"))

\* the names fs::read_dir yields for dir
EntryNames(tree, dir) ==
    {p[Len(p)] : p \in {q \in DOMAIN tree : Len(q) = Len(dir) + 1 /\ SubSeq(q, 1, Len(dir)) = dir}}

KEY_MAIN == <<"main.cpp">>
KEY_CMAKE == <<"CMakeLists.txt">>
KEY_LIB_UTILS == <<"lib", "/", "utils.hpp">>
KEY_LIB_MAIN == <<"lib", "/", "main.cpp">>
KEY_LIB_CMAKE == <<"lib", "/", "CMakeLists.txt">>
KEY_GITIGNORE == <<".gitignore">>

\* a list of required files that leaves CMakeLists.txt out
required_files_OnlyMain == <<"main.cpp">>

required_files == <<"main.cpp", "CMakeLists.txt">>

\* two file names that are no valid UTF-8 (Latin-1 bytes E9 and E8 after "caf")
\* and the name both turn into, U+FFFD standing where the invalid byte stood
NAME_E9 == "caf<E9>.txt"
NAME_E8 == "caf<E8>.txt"
NAME_LOSSY == "caf<U+FFFD>.txt"
NonUtf8Names == {NAME_E9, NAME_E8}

\* OsStr::to_string_lossy: a name that is valid UTF-8 as it is, any other with
\* U+FFFD for each invalid sequence
to_string_lossy(os_name) == IF os_name \in NonUtf8Names THEN NAME_LOSSY ELSE os_name

\* the first of the names in s that comes first in order
RECURSIVE FirstIn(_, _)
FirstIn(order, s) == IF Head(order) \in s THEN Head(order) ELSE FirstIn(Tail(order), s)

\* a skip that also passes over .gitignore
SkipsRequired_DotFiles(prefix, name) ==
    \/ prefix = <<>> /\ name \in {"main.cpp", "CMakeLists.txt"}
    \/ name = ".gitignore"

\* a skip that passes over the required names in every directory
SkipsRequired_AnyLevel(prefix, name) == name \in {"main.cpp", "CMakeLists.txt"}

\* `prefix.is_empty() && required_files.contains(&name)`
SkipsRequired(prefix, name) ==
    prefix = <<>> /\ \E i \in 1..Len(required_files) : required_files[i] = name

\* a relative path that drops the prefix
RelativePath_NoPrefix(prefix, name) == <<name>>

\* the relative path of an entry: name at the root, "prefix/name" below it
RelativePath(prefix, name) ==
    IF prefix = <<>> THEN <<name>> ELSE prefix \o <<"/", name>>

\* Template::load_directory_recursively: [ok, files]; read_dir yields the
\* entries of every directory in the order `order` ranks their names
RECURSIVE load_directory_recursively(_, _, _, _, _)
RECURSIVE WalkEntries(_, _, _, _, _, _)
\* a walk that returns the error of a file it cannot read as text
WalkEntries_ReadOrFail(tree, dir, prefix, files, order, left) ==
    IF left = {} THEN [ok |-> TRUE, files |-> files]
    ELSE LET file_name == FirstIn(order, left)
             path == Append(dir, file_name)
             name == to_string_lossy(file_name)
             relative_path == RelativePath(prefix, name)
             rest == left \ {file_name}
         IN  IF is_dir(tree, path)
             THEN LET sub == load_directory_recursively(tree, path, relative_path, files, order)
                  IN  IF sub.ok
                      THEN WalkEntries(tree, dir, prefix, sub.files, order, rest)
                      ELSE sub
             ELSE IF is_file(tree, path)
             THEN IF SkipsRequired(prefix, name)
                  THEN WalkEntries(tree, dir, prefix, files, order, rest)
                  ELSE LET content == read_to_string(tree, path)
                       IN  IF content.ok
                           THEN WalkEntries(tree, dir, prefix,
                                    (relative_path :> content.files) @@ files, order, rest)
                           ELSE [ok |-> FALSE, files |-> files]
             ELSE WalkEntries(tree, dir, prefix, files, order, rest)

WalkEntries(tree, dir, prefix, files, order, left) ==
    IF left = {} THEN [ok |-> TRUE, files |-> files]
    ELSE LET file_name == FirstIn(order, left)
             path == Append(dir, file_name)
             name == to_string_lossy(file_name)
             relative_path == RelativePath(prefix, name)
             rest == left \ {file_name}
         IN  IF is_dir(tree, path)
             THEN LET sub == load_directory_recursively(tree, path, relative_path, files, order)
                  IN  IF sub.ok
                      THEN WalkEntries(tree, dir, prefix, sub.files, order, rest)
                      ELSE sub
             ELSE IF is_file(tree, path)
             THEN IF SkipsRequired(prefix, name)
                  THEN WalkEntries(tree, dir, prefix, files, order, rest)
                  ELSE LET content == read_to_string(tree, path)
                       IN  IF content.ok
                           THEN WalkEntries(tree, dir, prefix,
                                    (relative_path :> content.files) @@ files, order, rest)
                           ELSE WalkEntries(tree, dir, prefix, files, order, rest)
             ELSE WalkEntries(tree, dir, prefix, files, order, rest)

load_directory_recursively(tree, dir, prefix, files, order) ==
    IF ~exists(tree, dir) \/ tree[dir].kind # "dir"
    THEN [ok |-> FALSE, files |-> files]
    ELSE WalkEntries(tree, dir, prefix, files, order, EntryNames(tree, dir))

\* the loop over required_files, from index i on: [ok, files, err]
RECURSIVE LoadRequired(_, _, _)
LoadRequired(tree, i, files) ==
    IF i > Len(required_files) THEN Ok(files)
    ELSE LET file_name == required_files[i]
             file_path == <<file_name>>
         IN  IF ~exists(tree, file_path)
             THEN Err(TemplateNotFound(<<file_name, " not found in template">>))
             ELSE LET content == read_to_string(tree, file_path)
                  IN  IF content.ok
                      THEN LoadRequired(tree, i + 1, (<<file_name>> :> content.files) @@ files)
                      ELSE Err(content.err)

\* Template::load_from_path
load_from_path(tree, order) ==
    LET required == LoadRequired(tree, 1, <<>>)
    IN  IF ~required.ok THEN required
        ELSE LET walk == load_directory_recursively(tree, ROOT, <<>>, required.files, order)
             IN  IF walk.ok THEN Ok(walk.files) ELSE Err(Io("read_dir"))

-----------------------------------------------------------------------------
(* The filesystem the project is written to: a tree over absolute paths.    *)

\* the components of a path string: split at '/', empty and "." components
\* dropped (std::path::Components)
RECURSIVE Components(_)
Components(str) ==
    IF str = <<>> THEN <<>>
    ELSE IF Head(str) \in {"/", "."} THEN Components(Tail(str))
    ELSE <<Head(str)>> \o Components(Tail(str))

\* a path, after the kernel has walked its ".." components
RECURSIVE Walked(_, _)
Walked(at, comps) ==
    IF comps = <<>> THEN at
    ELSE IF Head(comps) = ".."
         THEN Walked(IF at = <<>> THEN at ELSE SubSeq(at, 1, Len(at) - 1), Tail(comps))
         ELSE Walked(Append(at, Head(comps)), Tail(comps))

\* a join that ignores the directories of the relative path
join_FlatName(base, str) ==
    IF Components(str) = <<>> THEN base
    ELSE Append(base, Components(str)[Len(Components(str))])

\* a join that takes the relative path for the whole path
join_IgnoresBase(base, str) == Walked(<<>>, Components(str))

\* Path::join, as the path the filesystem resolves it to: an absolute str
\* replaces base
join(base, str) ==
    IF str # <<>> /\ Head(str) = "/" THEN Walked(<<>>, Components(str))
    ELSE Walked(base, Components(str))

\* Path::parent
parent(p) == SubSeq(p, 1, Len(p) - 1)

\* the ancestors of p, p included, that do not exist, outermost first
RECURSIVE MissingDirs(_, _)
MissingDirs(fsys, p) ==
    IF exists(fsys, p) THEN <<>>
    ELSE IF p = <<>> THEN <<p>>
    ELSE Append(MissingDirs(fsys, parent(p)), p)

\* fsys with the first n of the directories ds made
MakeDirs(fsys, ds, n) == [q \in {ds[i] : i \in 1..n} |-> DirNode] @@ fsys

\* a file lies where p or one of its ancestors should be a directory
RECURSIVE Blocked(_, _)
Blocked(fsys, p) ==
    IF exists(fsys, p) THEN ~is_dir(fsys, p)
    ELSE IF p = <<>> THEN FALSE
    ELSE Blocked(fsys, parent(p))

\* fs::create_dir_all(p): the outcomes [ok, fs].  It succeeds making every
\* missing directory unless a file is in the way; `io` says whether the
\* operating system refuses one of the mkdir calls, and then the directories
\* before it stay made.
create_dir_all(fsys, p, io) ==
    LET ds == MissingDirs(fsys, p)
    IN  IF Blocked(fsys, p) THEN {[ok |-> FALSE, fs |-> fsys]}
        ELSE IF io /\ ds # <<>>
             THEN {[ok |-> FALSE, fs |-> MakeDirs(fsys, ds, n)] : n \in 0..(Len(ds) - 1)}
             ELSE {[ok |-> TRUE, fs |-> MakeDirs(fsys, ds, Len(ds))]}

\* fs::write(p, content): creates or truncates the file; fails when p is a
\* directory, when its parent is no directory, or when the system refuses
write(fsys, p, content, io) ==
    IF io \/ is_dir(fsys, p) \/ ~is_dir(fsys, parent(p))
    THEN [ok |-> FALSE, fs |-> fsys]
    ELSE [ok |-> TRUE, fs |-> (p :> TextNode(content)) @@ fsys]

\* the variables of create_project, for the specifications that leave it out
NewIdle ==
    /\ env = Null /\ fs = Null /\ fs0 = Null /\ calls = 0 /\ created = {}
    /\ args = Null /\ atCall = Null /\ phase = "none" /\ project_path = Null
    /\ source = <<>> /\ template = NoTemplate /\ processed = NoTemplate
    /\ todo = {} /\ written = {} /\ err = NoError
    /\ config = Null /\ cfLast = Null

-----------------------------------------------------------------------------
(* Specification of the loader alone: Init draws a source directory tree,    *)
(* Load applies load_from_path to it under some enumeration order.          *)

\* what a text file of a tree holds: the tag of the tree, its path, and for the
\* two required files the placeholder tokens
TextOf(tag, p) ==
    IF p = <<"main.cpp">> THEN <<tag, "// ">> \o TOKEN_PROJECT_NAME
    ELSE IF p = <<"CMakeLists.txt">>
         THEN <<tag, "cmake ">> \o TOKEN_CMAKE_VERSION \o <<" std ">> \o TOKEN_CPP_STANDARD
                  \o <<" project(">> \o TOKEN_PROJECT_NAME \o <<")">>
    ELSE IF p = <<"lib", "utils.hpp">> THEN <<tag, "// utils of ">> \o TOKEN_PROJECT_NAME
    ELSE IF p = <<".gitignore">> THEN <<tag, "build/">>
    ELSE IF p = <<"lib", "CMakeLists.txt">> THEN <<tag, "# lib/CMakeLists.txt">>
    ELSE IF Len(p) > 0 /\ p[Len(p)] \in NonUtf8Names THEN <<tag, "// ">> \o p
    ELSE <<tag, "// lib/main.cpp">>

NodeOf(tag, p, kind) ==
    CASE kind = "text" -> TextNode(TextOf(tag, p))
      [] kind = "binary" -> BinaryNode
      [] kind = "dir" -> DirNode
      [] kind = "denied" -> DeniedDirNode
      [] OTHER -> AbsentNode

TreePaths == {ROOT, <<"main.cpp">>, <<"CMakeLists.txt">>, <<".gitignore">>, <<"lib">>,
              <<"lib", "main.cpp">>, <<"lib", "CMakeLists.txt">>, <<"lib", "utils.hpp">>}

\* the kinds of node each path of a tree may be
KindsAt(p) ==
    CASE p = ROOT -> {"dir", "denied", "text"}
      [] p = <<"main.cpp">> -> {"absent", "text", "binary", "dir"}
      [] p = <<"CMakeLists.txt">> -> {"absent", "text", "binary"}
      [] p = <<"lib">> -> {"absent", "text", "dir", "denied"}
      [] p = <<"lib", "main.cpp">> -> {"absent", "text", "binary"}
      [] p = <<".gitignore">> -> {"absent", "text", "binary"}
      [] OTHER -> {"absent", "text"}

Parent(p) == SubSeq(p, 1, Len(p) - 1)

\* every entry lies in a directory
WellFormedKinds(k) ==
    \A p \in TreePaths \ {ROOT} :
        k[p] # "absent" => k[Parent(p)] \in {"dir", "denied"}

TreeOfKinds(tag, k) ==
    [p \in {q \in TreePaths : k[q] # "absent"} |-> NodeOf(tag, p, k[p])]

KindMaps == {k \in [TreePaths -> {"absent", "text", "binary", "dir", "denied"}] :
                (\A p \in TreePaths : k[p] \in KindsAt(p)) /\ WellFormedKinds(k)}

Trees(tag) == {NoTree} \cup {TreeOfKinds(tag, k) : k \in KindMaps}

EntryNameSet == {"main.cpp", "CMakeLists.txt", ".gitignore", "lib", "utils.hpp"}

Orders == {o \in [1..Cardinality(EntryNameSet) -> EntryNameSet] :
              \A i, j \in DOMAIN o : i # j => o[i] # o[j]}

InitLoad ==
    /\ pc = "load"
    /\ ldTree \in Trees("src:")
    /\ ldOrder = Null
    /\ ldResult = Null
    /\ sbFiles = Null /\ sbMap = Null /\ sbOnce = Null /\ sbTwice = Null
    /\ NewIdle

Load ==
    /\ pc = "load"
    /\ pc' = "load_done"
    /\ ldOrder' \in Orders
    /\ ldResult' = load_from_path(ldTree, ldOrder')
    /\ UNCHANGED <<ldTree, sbVars, newVars, cfVars>>

NextLoad == Load

SpecLoad == InitLoad /\ [][NextLoad]_vars

\* the root of the tree is a directory
IsSourceDirectory(tree) == is_dir(tree, ROOT)

Lacks(tree, file_name) == ~exists(tree, <<file_name>>)

FailsNaming(result, file_name) ==
    /\ ~result.ok
    /\ result.err.kind = "TemplateNotFound"
    /\ Contains(to_string(result.err), <<file_name>>)

\* C7 as stated: loading a source directory that lacks main.cpp or lacks
\* CMakeLists.txt fails with TemplateNotFound, the message naming a missing file,
\* whatever else the directory holds.
C7_MissingRequiredIsTemplateNotFound ==
    (pc = "load_done" /\ IsSourceDirectory(ldTree)
        /\ (Lacks(ldTree, "main.cpp") \/ Lacks(ldTree, "CMakeLists.txt")))
    => \E f \in {"main.cpp", "CMakeLists.txt"} : Lacks(ldTree, f) /\ FailsNaming(ldResult, f)

\* C7 (amended): a source directory that lacks main.cpp fails with TemplateNotFound
\* naming main.cpp; one whose main.cpp is read as text and that lacks CMakeLists.txt
\* fails with TemplateNotFound naming CMakeLists.txt; whatever else it holds.
C7_FirstMissingRequiredIsNamed ==
    (pc = "load_done" /\ IsSourceDirectory(ldTree))
    => /\ Lacks(ldTree, "main.cpp") => FailsNaming(ldResult, "main.cpp")
       /\ (read_to_string(ldTree, <<"main.cpp">>).ok /\ Lacks(ldTree, "CMakeLists.txt"))
              => FailsNaming(ldResult, "CMakeLists.txt")

\* C7 witness: main.cpp is there, CMakeLists.txt is not, other files are, and the
\* load failed naming CMakeLists.txt
C7_Witness ==
    /\ pc = "load_done"
    /\ is_file(ldTree, <<"main.cpp">>) /\ Lacks(ldTree, "CMakeLists.txt")
    /\ is_file(ldTree, <<"lib", "utils.hpp">>)
    /\ FailsNaming(ldResult, "CMakeLists.txt")
    /\ to_string(ldResult.err) = <<"Template '", "CMakeLists.txt", " not found in template", "' not found">>

\* the components of a path joined with '/'
RECURSIVE JoinPath(_)
JoinPath(p) == IF Len(p) <= 1 THEN p ELSE <<Head(p), "/">> \o JoinPath(Tail(p))

RegularFiles(tree) == {p \in DOMAIN tree : is_file(tree, p)}

\* main.cpp and CMakeLists.txt are files at the root, every file is text and
\* every directory can be listed
FullyReadable(tree) ==
    /\ IsSourceDirectory(tree)
    /\ is_file(tree, <<"main.cpp">>) /\ is_file(tree, <<"CMakeLists.txt">>)
    /\ \A p \in DOMAIN tree : tree[p].kind \in {"dir", "text"}

-----------------------------------------------------------------------------
(* Specification of the substitution alone: Init draws a Template and a     *)
(* substitution map, Substitute applies process_template_variables to the   *)
(* Template and then to its own result.                                     *)

ContentChunks == TokenChunks

\* a {{...}} sequence that names no variable of the substitution
TOKEN_AUTHOR == <<"{{", "AUTHOR", "}}">>
ValueChunks == {"x", "}}"}

SubstTemplates ==
    {(KEY_MAIN :> c) @@ (KEY_CMAKE :> TOKEN_CMAKE_VERSION \o TOKEN_AUTHOR \o TOKEN_CPP_STANDARD)
        @@ (KEY_LIB_UTILS :> <<"//">> \o TOKEN_PROJECT_NAME \o <<" ">> \o TOKEN_PROJECT_NAME) :
     c \in SeqsUpTo(ContentChunks, MaxContentLen)}

ProjectConfigs ==
    {DefaultProjectConfig,
     [cpp_standard |-> <<"20">>, cmake_minimum_version |-> <<"3.20">>],
     [cpp_standard |-> <<"{{">>, cmake_minimum_version |-> <<"PROJECT_NAME">>]}

SubstMaps ==
    {[name |-> n, config |-> c] :
        n \in SeqsUpTo(ValueChunks, MaxValueLen) \cup Tokens, c \in ProjectConfigs}

InitSubst ==
    /\ pc = "subst"
    /\ ldTree = Null /\ ldOrder = Null /\ ldResult = Null
    /\ NewIdle
    /\ sbFiles \in SubstTemplates
    /\ sbMap \in SubstMaps
    /\ sbOnce = Null
    /\ sbTwice = Null

Substitute ==
    /\ pc = "subst"
    /\ pc' = "subst_done"
    /\ sbOnce' = process_template_variables(sbFiles, sbMap.name, sbMap.config)
    /\ sbTwice' = process_template_variables(sbOnce', sbMap.name, sbMap.config)
    /\ UNCHANGED <<sbFiles, sbMap, ldVars, newVars, cfVars>>

\* template.apply_variables(project_name), on the Template and with the project
\* name Init drew
ApplyVariables ==
    /\ pc = "subst"
    /\ pc' = "applied"
    /\ sbOnce' = apply_variables(sbFiles, sbMap.name)
    /\ UNCHANGED <<sbFiles, sbMap, sbTwice, ldVars, newVars, cfVars>>

NextSubst ==
    \/ Substitute
    \/ ApplyVariables

SpecSubst == InitSubst /\ [][NextSubst]_vars

\* the replacement values of a substitution map
MapValues(m) == {m.name, m.config.cmake_minimum_version, m.config.cpp_standard}

\* C10 as stated: when no replacement value contains a token sequence,
\* substituting twice gives what substituting once gives.
C10_IdempotentUnlessValueHasToken ==
    (pc = "subst_done" /\ \A v \in MapValues(sbMap) : \A t \in Tokens : ~Contains(v, t))
        => sbTwice = sbOnce

\* a value no part of which can become part of a token: not empty, and made
\* only of text that occurs in no placeholder token
PlainValue(v) == v # <<>> /\ \A i \in 1..Len(v) : v[i] \notin TokenChunks

\* C10 (amended): when every replacement value is non-empty and shares no text
\* with any placeholder token, substituting twice gives what substituting once gives.
C10_IdempotentForPlainValues ==
    (pc = "subst_done" /\ \A v \in MapValues(sbMap) : PlainValue(v))
        => sbTwice = sbOnce

\* C10 witness: plain values, a Template in which tokens occur, substituted twice
C10_Witness ==
    /\ pc = "subst_done"
    /\ \A v \in MapValues(sbMap) : PlainValue(v)
    /\ Contains(sbFiles[KEY_MAIN], TOKEN_PROJECT_NAME)
    /\ Contains(sbFiles[KEY_MAIN], <<"{{", "{{">>)
    /\ sbOnce # sbFiles
    /\ sbTwice = sbOnce

\* the substitution as one pass over the content: each token met is replaced by
\* its value, and the pass goes on after the token, never inside the value
RECURSIVE SinglePass(_, _)
SinglePass(content, m) ==
    IF Len(content) < 3 THEN content
    ELSE LET head == SubSeq(content, 1, 3)
             rest == SubSeq(content, 4, Len(content))
         IN  IF head = TOKEN_PROJECT_NAME THEN m.name \o SinglePass(rest, m)
             ELSE IF head = TOKEN_CMAKE_VERSION
                  THEN m.config.cmake_minimum_version \o SinglePass(rest, m)
             ELSE IF head = TOKEN_CPP_STANDARD
                  THEN m.config.cpp_standard \o SinglePass(rest, m)
             ELSE <<Head(content)>> \o SinglePass(Tail(content), m)

\* C11: when the project name is itself a placeholder token, the name stands
\* verbatim wherever {{PROJECT_NAME}} stood: it is not replaced in turn by the
\* value of the token it spells.
C11_ValueWithTokenStaysVerbatim ==
    (pc = "subst_done" /\ sbMap.name \in Tokens)
    => sbOnce[KEY_LIB_UTILS] = <<"//">> \o sbMap.name \o <<" ">> \o sbMap.name

\* C12: the result has the keys of the input, and every file's content is the
\* input's with every placeholder token replaced by its value and every other
\* text, {{AUTHOR}} included, left as it was.
C12_TotalAndContentOnly ==
    pc = "subst_done"
    => /\ DOMAIN sbOnce = DOMAIN sbFiles
       /\ \A k \in DOMAIN sbFiles : sbOnce[k] = SinglePass(sbFiles[k], sbMap)

-----------------------------------------------------------------------------
(* Configuration (Config) *)

\* PathBuf::from(&str) and Path::display().to_string(): the path keeps the
\* text it was made from
PathBuf_from(str) == [os |-> str]
display(path) == path.os

\* Config::default(); config_dir says whether dirs::config_dir() is Some
Config_default(config_dir) ==
    [template |-> [default |-> <<"default">>,
                   path |-> PathBuf_from(<<IF config_dir THEN "<config_dir>" ELSE ".", "/",
                                           "procon_rs", "/", "templates">>)],
     project |-> DefaultProjectConfig]

\* no Config: execute has not loaded one yet
NoConfig == [loaded |-> FALSE]

\* Config::load: the defaults, whatever is stored
Config_load(config_dir) == [ok |-> TRUE, config |-> Config_default(config_dir)]

\* Result::unwrap_or_default
unwrap_or_default(result, config_dir) ==
    IF result.ok THEN result.config ELSE Config_default(config_dir)

KEY_TEMPLATE_DEFAULT == "template.default"
KEY_TEMPLATE_PATH == "template.path"
KEY_CPP_STANDARD == "project.cpp_standard"
KEY_CMAKE_MINIMUM_VERSION == "project.cmake_minimum_version"
ConfigKeys == {KEY_TEMPLATE_DEFAULT, KEY_TEMPLATE_PATH, KEY_CPP_STANDARD,
               KEY_CMAKE_MINIMUM_VERSION}

Some(v) == [some |-> TRUE, value |-> v]
None == [some |-> FALSE, value |-> <<>>]

\* Config::get
get(c, key) ==
    CASE key = KEY_TEMPLATE_DEFAULT -> Some(c.template.default)
      [] key = KEY_TEMPLATE_PATH -> Some(display(c.template.path))
      [] key = KEY_CPP_STANDARD -> Some(c.project.cpp_standard)
      [] key = KEY_CMAKE_MINIMUM_VERSION -> Some(c.project.cmake_minimum_version)
      [] OTHER -> None

\* a set that writes project.cpp_standard into the field of the CMake version
set_WrongField(c, key, value) ==
    CASE key = KEY_TEMPLATE_DEFAULT ->
             [ok |-> TRUE, config |-> [c EXCEPT !.template.default = value], err |-> NoError]
      [] key = KEY_TEMPLATE_PATH ->
             [ok |-> TRUE, config |-> [c EXCEPT !.template.path = PathBuf_from(value)],
              err |-> NoError]
      [] key = KEY_CPP_STANDARD ->
             [ok |-> TRUE, config |-> [c EXCEPT !.project.cmake_minimum_version = value],
              err |-> NoError]
      [] key = KEY_CMAKE_MINIMUM_VERSION ->
             [ok |-> TRUE, config |-> [c EXCEPT !.project.cmake_minimum_version = value],
              err |-> NoError]
      [] OTHER ->
             [ok |-> FALSE, config |-> c,
              err |-> ConfigError(<<"Unknown configuration key", ": ", key>>)]

\* a set that stores the value of an unknown key as template.default before it
\* returns the error
set_StoresUnknown(c, key, value) ==
    CASE key = KEY_TEMPLATE_DEFAULT ->
             [ok |-> TRUE, config |-> [c EXCEPT !.template.default = value], err |-> NoError]
      [] key = KEY_TEMPLATE_PATH ->
             [ok |-> TRUE, config |-> [c EXCEPT !.template.path = PathBuf_from(value)],
              err |-> NoError]
      [] key = KEY_CPP_STANDARD ->
             [ok |-> TRUE, config |-> [c EXCEPT !.project.cpp_standard = value],
              err |-> NoError]
      [] key = KEY_CMAKE_MINIMUM_VERSION ->
             [ok |-> TRUE, config |-> [c EXCEPT !.project.cmake_minimum_version = value],
              err |-> NoError]
      [] OTHER ->
             [ok |-> FALSE, config |-> [c EXCEPT !.template.default = value],
              err |-> ConfigError(<<"Unknown configuration key", ": ", key>>)]

\* Config::set: [ok, config, err], config being *self after the call
set(c, key, value) ==
    CASE key = KEY_TEMPLATE_DEFAULT ->
             [ok |-> TRUE, config |-> [c EXCEPT !.template.default = value], err |-> NoError]
      [] key = KEY_TEMPLATE_PATH ->
             [ok |-> TRUE, config |-> [c EXCEPT !.template.path = PathBuf_from(value)],
              err |-> NoError]
      [] key = KEY_CPP_STANDARD ->
             [ok |-> TRUE, config |-> [c EXCEPT !.project.cpp_standard = value],
              err |-> NoError]
      [] key = KEY_CMAKE_MINIMUM_VERSION ->
             [ok |-> TRUE, config |-> [c EXCEPT !.project.cmake_minimum_version = value],
              err |-> NoError]
      [] OTHER ->
             [ok |-> FALSE, config |-> c,
              err |-> ConfigError(<<"Unknown configuration key", ": ", key>>)]

-----------------------------------------------------------------------------
(* Template resolution *)

\* TemplateLoader::find_template: [ok, err]; Ok is the user directory of `name`
find_template(e, name) ==
    IF e.config_dir /\ exists(e.user[name], ROOT)
    THEN [ok |-> TRUE, err |-> NoError]
    ELSE [ok |-> FALSE, err |-> TemplateNotFound(name)]

builtin_templates == {<<"default">>, <<"advanced">>}

\* the outcome of load_template: [ok, files, err], and in `source` the places
\* load_from_path was applied to, in order
Loaded(result, src) ==
    [ok |-> result.ok, files |-> result.files, err |-> result.err, source |-> src]

\* a resolution that asks the development directory first
load_template_BuiltinFirst(template_name, e, order) ==
    IF template_name \in builtin_templates /\ e.cargo_manifest_dir
           /\ exists(e.dev[template_name], ROOT)
    THEN Loaded(load_from_path(e.dev[template_name], order), <<"dev">>)
    ELSE IF find_template(e, template_name).ok
    THEN Loaded(load_from_path(e.user[template_name], order), <<"user">>)
    ELSE Loaded(Err(TemplateNotFound(template_name)), <<>>)

\* a resolution that goes on to the built-in names when the user directory
\* fails to load
load_template_Fallback(template_name, e, order) ==
    LET found == find_template(e, template_name).ok
        user == IF found THEN load_from_path(e.user[template_name], order)
                ELSE Err(TemplateNotFound(template_name))
        tried == IF found THEN <<"user">> ELSE <<>>
    IN  IF user.ok THEN Loaded(user, tried)
        ELSE IF template_name \in builtin_templates
        THEN IF e.cargo_manifest_dir /\ exists(e.dev[template_name], ROOT)
             THEN Loaded(load_from_path(e.dev[template_name], order), Append(tried, "dev"))
             ELSE Loaded(Err(TemplateNotFoundWithHint(template_name)), tried)
        ELSE Loaded(Err(TemplateNotFound(template_name)), tried)

\* a resolution that reports the name it could not resolve without the name
load_template_Anonymous(template_name, e, order) ==
    IF find_template(e, template_name).ok
    THEN Loaded(load_from_path(e.user[template_name], order), <<"user">>)
    ELSE IF template_name \in builtin_templates
    THEN IF e.cargo_manifest_dir /\ exists(e.dev[template_name], ROOT)
         THEN Loaded(load_from_path(e.dev[template_name], order), <<"dev">>)
         ELSE Loaded(Err(TemplateNotFoundWithHint(template_name)), <<>>)
    ELSE Loaded(Err(TemplateNotFound(<<"template">>)), <<>>)

\* NewCommand::load_template: [ok, files, err, source]
load_template(template_name, e, order) ==
    IF find_template(e, template_name).ok
    THEN Loaded(load_from_path(e.user[template_name], order), <<"user">>)
    ELSE IF template_name \in builtin_templates
    THEN IF e.cargo_manifest_dir /\ exists(e.dev[template_name], ROOT)
         THEN Loaded(load_from_path(e.dev[template_name], order), <<"dev">>)
         ELSE Loaded(Err(TemplateNotFoundWithHint(template_name)), <<>>)
    ELSE Loaded(Err(TemplateNotFound(template_name)), <<>>)

-----------------------------------------------------------------------------
(* Template::copy_to, one action for its first line, one for each turn of   *)
(* its loop and one for its return.                                         *)

Fail(e) ==
    /\ pc' = "failed"
    /\ err' = e

\* `fs::create_dir_all(dest_dir)?`
CopyBegin ==
    /\ pc = "copy"
    /\ \E io \in BOOLEAN : \E made \in create_dir_all(fs, project_path, io) :
          /\ fs' = made.fs
          /\ written' = written \cup (DOMAIN made.fs \ DOMAIN fs)
          /\ IF made.ok
             THEN pc' = "copy_files" /\ todo' = DOMAIN processed /\ UNCHANGED err
             ELSE Fail(Io("create_dir_all")) /\ UNCHANGED todo
    /\ phase' = "copy"
    /\ UNCHANGED <<env, fs0, calls, created, args, atCall, project_path, source, template,
                   processed, ldVars, sbVars, cfVars>>

\* a turn of the loop that removes what the operation has written when it fails
CopyFile_RollsBack ==
    /\ pc = "copy_files"
    /\ \E relative_path \in todo : \E io1, io2 \in BOOLEAN :
          LET dest_file == join(project_path, relative_path)
          IN  \E made \in create_dir_all(fs, parent(dest_file), io1) :
                 LET wrote == write(made.fs, dest_file, processed[relative_path], io2)
                 IN  IF ~made.ok
                     THEN /\ fs' = fs0
                          /\ written' = written
                          /\ Fail(Io("create_dir_all"))
                          /\ UNCHANGED todo
                     ELSE IF ~wrote.ok
                     THEN /\ fs' = fs0
                          /\ written' = written
                          /\ Fail(Io("write"))
                          /\ UNCHANGED todo
                     ELSE /\ fs' = wrote.fs
                          /\ written' = written \cup (DOMAIN wrote.fs \ DOMAIN fs) \cup {dest_file}
                          /\ todo' = todo \ {relative_path}
                          /\ UNCHANGED <<pc, err>>
    /\ phase' = "copy"
    /\ UNCHANGED <<env, fs0, calls, created, args, atCall, project_path, source, template,
                   processed, ldVars, sbVars, cfVars>>

\* a turn of the loop that tries the same file again when its write fails
CopyFile_Retries ==
    /\ pc = "copy_files"
    /\ \E relative_path \in todo : \E io1, io2 \in BOOLEAN :
          LET dest_file == join(project_path, relative_path)
          IN  \E made \in create_dir_all(fs, parent(dest_file), io1) :
                 LET wrote == write(made.fs, dest_file, processed[relative_path], io2)
                 IN  IF ~made.ok
                     THEN /\ fs' = made.fs
                          /\ written' = written \cup (DOMAIN made.fs \ DOMAIN fs)
                          /\ Fail(Io("create_dir_all"))
                          /\ UNCHANGED todo
                     ELSE IF ~wrote.ok
                     THEN /\ fs' = wrote.fs
                          /\ written' = written \cup (DOMAIN wrote.fs \ DOMAIN fs)
                          /\ UNCHANGED <<pc, err, todo>>
                     ELSE /\ fs' = wrote.fs
                          /\ written' = written \cup (DOMAIN wrote.fs \ DOMAIN fs) \cup {dest_file}
                          /\ todo' = todo \ {relative_path}
                          /\ UNCHANGED <<pc, err>>
    /\ phase' = "copy"
    /\ UNCHANGED <<env, fs0, calls, created, args, atCall, project_path, source, template,
                   processed, ldVars, sbVars, cfVars>>

\* one turn of `for (relative_path, content) in &self.files`, in HashMap order
CopyFile ==
    /\ pc = "copy_files"
    /\ \E relative_path \in todo : \E io1, io2 \in BOOLEAN :
          LET dest_file == join(project_path, relative_path)
          IN  \E made \in create_dir_all(fs, parent(dest_file), io1) :
                 LET wrote == write(made.fs, dest_file, processed[relative_path], io2)
                 IN  IF ~made.ok
                     THEN /\ fs' = made.fs
                          /\ written' = written \cup (DOMAIN made.fs \ DOMAIN fs)
                          /\ Fail(Io("create_dir_all"))
                          /\ UNCHANGED todo
                     ELSE IF ~wrote.ok
                     THEN /\ fs' = wrote.fs
                          /\ written' = written \cup (DOMAIN wrote.fs \ DOMAIN fs)
                          /\ Fail(Io("write"))
                          /\ UNCHANGED todo
                     ELSE /\ fs' = wrote.fs
                          /\ written' = written \cup (DOMAIN wrote.fs \ DOMAIN fs) \cup {dest_file}
                          /\ todo' = todo \ {relative_path}
                          /\ UNCHANGED <<pc, err>>
    /\ phase' = "copy"
    /\ UNCHANGED <<env, fs0, calls, created, args, atCall, project_path, source, template,
                   processed, ldVars, sbVars, cfVars>>

\* `Ok(())`, of copy_to and so of execute
CopyEnd ==
    /\ pc = "copy_files"
    /\ todo = {}
    /\ pc' = "done"
    /\ created' = created \cup {project_path}
    /\ UNCHANGED <<env, fs, fs0, calls, args, atCall, phase, project_path, source, template,
                   processed, todo, written, err, ldVars, sbVars, cfVars>>

-----------------------------------------------------------------------------
(* NewCommand::execute (create_project) *)

MaxCalls == 2           \* create_project invocations in one behaviour

DEFAULT == <<"default">>
ADVANCED == <<"advanced">>
CUSTOM == <<"custom">>
NONEXISTENT == <<"nonexistent">>
TemplateNames == {DEFAULT, ADVANCED, CUSTOM, NONEXISTENT}

CWD == <<"cwd">>
BASE == <<"base">>
ProjectNames == {<<"demo">>}
NoPath == <<"None">>
PathOptions == {NoPath, BASE}

ArgsSet == [name : ProjectNames, template : TemplateNames, path : PathOptions]

\* lines 17-23: the configuration and the project path; current_dir() may fail
Call ==
    /\ pc \in {"idle", "done", "failed"}
    /\ calls < MaxCalls
    /\ calls' = calls + 1
    /\ phase' = "call"
    /\ \E a \in ArgsSet : \E cwd_ok \in BOOLEAN :
          /\ args' = a
          /\ IF a.path = NoPath /\ ~cwd_ok
             THEN /\ Fail(Io("current_dir"))
                  /\ project_path' = Null
                  /\ atCall' = [exists |-> FALSE, created |-> FALSE]
             ELSE /\ pc' = "check"
                  /\ err' = NoError
                  /\ project_path' = join(IF a.path = NoPath THEN CWD ELSE a.path, a.name)
                  /\ atCall' = [exists |-> exists(fs, project_path'),
                                created |-> project_path' \in created]
    /\ fs0' = fs
    /\ source' = <<>> /\ template' = NoTemplate /\ processed' = NoTemplate
    /\ todo' = {} /\ written' = {}
    /\ config' = unwrap_or_default(Config_load(env.config_dir), env.config_dir)
    /\ UNCHANGED <<env, fs, created, ldVars, sbVars, cfLast>>

\* a check that lets an existing destination through
DestinationTaken_Never(fsys, path) == FALSE

\* `project_path.exists()`
DestinationTaken(fsys, path) == exists(fsys, path)

\* an execute that writes main.cpp before it looks whether the destination exists
CheckDestination_WritesFirst ==
    /\ pc = "check"
    /\ LET wrote == write(fs, join(project_path, <<"main.cpp">>), <<>>, FALSE)
       IN  /\ fs' = wrote.fs
           /\ written' = written \cup
                  (IF wrote.ok THEN {join(project_path, <<"main.cpp">>)} ELSE {})
    /\ IF DestinationTaken(fs, project_path)
       THEN Fail(ProjectExists(args.name))
       ELSE pc' = "load" /\ UNCHANGED err
    /\ phase' = "check"
    /\ UNCHANGED <<env, fs0, calls, created, args, atCall, project_path, source,
                   template, processed, todo, ldVars, sbVars, cfVars>>

\* lines 25-28
CheckDestination ==
    /\ pc = "check"
    /\ IF DestinationTaken(fs, project_path)
       THEN Fail(ProjectExists(args.name))
       ELSE pc' = "load" /\ UNCHANGED err
    /\ phase' = "check"
    /\ UNCHANGED <<env, fs, fs0, calls, created, args, atCall, project_path, source,
                   template, processed, todo, written, ldVars, sbVars, cfVars>>

\* an execute that makes the project directory before it loads the template
LoadTemplate_MakesDirFirst ==
    /\ pc = "load"
    /\ \E made \in create_dir_all(fs, project_path, FALSE) :
          /\ fs' = made.fs
          /\ written' = written \cup (DOMAIN made.fs \ DOMAIN fs)
    /\ \E loaded \in {load_template(args.template, env, order) : order \in Orders} :
              /\ source' = loaded.source
              /\ IF loaded.ok
                 THEN pc' = "substitute" /\ template' = loaded.files /\ UNCHANGED err
                 ELSE Fail(loaded.err) /\ UNCHANGED template
    /\ phase' = "load"
    /\ UNCHANGED <<env, fs0, calls, created, args, atCall, project_path, processed,
                   todo, ldVars, sbVars, cfVars>>

\* an execute that has made the project directory when the load fails
LoadTemplate_DirOnFailure ==
    /\ pc = "load"
    /\ \E loaded \in {load_template(args.template, env, order) : order \in Orders} :
              /\ source' = loaded.source
              /\ IF loaded.ok
                 THEN /\ pc' = "substitute" /\ template' = loaded.files
                      /\ UNCHANGED <<err, fs, written>>
                 ELSE /\ Fail(loaded.err) /\ UNCHANGED template
                      /\ \E made \in create_dir_all(fs, project_path, FALSE) :
                            /\ fs' = made.fs
                            /\ written' = written \cup (DOMAIN made.fs \ DOMAIN fs)
    /\ phase' = "load"
    /\ UNCHANGED <<env, fs0, calls, created, args, atCall, project_path, processed,
                   todo, ldVars, sbVars, cfVars>>

\* line 31
LoadTemplate ==
    /\ pc = "load"
    /\ \E loaded \in {load_template(args.template, env, order) : order \in Orders} :
              /\ source' = loaded.source
              /\ IF loaded.ok
                 THEN pc' = "substitute" /\ template' = loaded.files /\ UNCHANGED err
                 ELSE Fail(loaded.err) /\ UNCHANGED template
    /\ phase' = "load"
    /\ UNCHANGED <<env, fs, fs0, calls, created, args, atCall, project_path, processed,
                   todo, written, ldVars, sbVars, cfVars>>

\* line 34
SubstituteVariables ==
    /\ pc = "substitute"
    /\ processed' = process_template_variables(template, args.name, config.project)
    /\ pc' = "mkdir"
    /\ phase' = "substitute"
    /\ UNCHANGED <<env, fs, fs0, calls, created, args, atCall, project_path, source,
                   template, todo, written, err, ldVars, sbVars, cfVars>>

\* an execute that looks again whether the destination exists before it makes it
CreateProjectDir_Rechecks ==
    /\ pc = "mkdir"
    /\ IF DestinationTaken(fs, project_path)
       THEN Fail(ProjectExists(args.name)) /\ UNCHANGED <<fs, written>>
       ELSE \E io \in BOOLEAN : \E made \in create_dir_all(fs, project_path, io) :
               /\ fs' = made.fs
               /\ written' = written \cup (DOMAIN made.fs \ DOMAIN fs)
               /\ IF made.ok THEN pc' = "copy" /\ UNCHANGED err
                             ELSE Fail(Io("create_dir_all"))
    /\ phase' = "mkdir"
    /\ UNCHANGED <<env, fs0, calls, created, args, atCall, project_path, source, template,
                   processed, todo, ldVars, sbVars, cfVars>>

\* line 37
CreateProjectDir ==
    /\ pc = "mkdir"
    /\ \E io \in BOOLEAN : \E made \in create_dir_all(fs, project_path, io) :
          /\ fs' = made.fs
          /\ written' = written \cup (DOMAIN made.fs \ DOMAIN fs)
          /\ IF made.ok THEN pc' = "copy" /\ UNCHANGED err
                        ELSE Fail(Io("create_dir_all"))
    /\ phase' = "mkdir"
    /\ UNCHANGED <<env, fs0, calls, created, args, atCall, project_path, source, template,
                   processed, todo, ldVars, sbVars, cfVars>>

\* the kinds of the nodes of a tree, by path; every other path is absent
KindsOf(present) ==
    [p \in TreePaths |-> IF p \in DOMAIN present THEN present[p] ELSE "absent"]

\* a template directory with the required files and a file in a subdirectory
CompleteTree(tag) ==
    TreeOfKinds(tag, KindsOf((ROOT :> "dir") @@ (<<"main.cpp">> :> "text")
        @@ (<<"CMakeLists.txt">> :> "text") @@ (<<"lib">> :> "dir")
        @@ (<<"lib", "utils.hpp">> :> "text")))

\* a template directory without CMakeLists.txt
NoCMakeTree(tag) ==
    TreeOfKinds(tag, KindsOf((ROOT :> "dir") @@ (<<"main.cpp">> :> "text")))

\* a template directory whose main.cpp cannot be read as text
UnreadableTree(tag) ==
    TreeOfKinds(tag, KindsOf((ROOT :> "dir") @@ (<<"main.cpp">> :> "binary")
        @@ (<<"CMakeLists.txt">> :> "text")))

\* a template directory with the required files only
PlainTree(tag) ==
    TreeOfKinds(tag, KindsOf((ROOT :> "dir") @@ (<<"main.cpp">> :> "text")
        @@ (<<"CMakeLists.txt">> :> "text")))

\* templates/default as the repository ships it: the required files and .gitignore
RepoDefaultTree(tag) ==
    TreeOfKinds(tag, KindsOf((ROOT :> "dir") @@ (<<"main.cpp">> :> "text")
        @@ (<<"CMakeLists.txt">> :> "text") @@ (<<".gitignore">> :> "text")))

UserTrees(name) ==
    IF name = DEFAULT
    THEN {NoTree, CompleteTree("user:"), NoCMakeTree("user:"), UnreadableTree("user:")}
    ELSE IF name = CUSTOM THEN {PlainTree("user:")}
    ELSE {NoTree}

DevTrees(name) ==
    IF name = DEFAULT THEN {NoTree, RepoDefaultTree("dev:")} ELSE {NoTree}

\* one tree for each template name, drawn from what `choices` allows the name
TreesByName(choices) ==
    {(DEFAULT :> a) @@ (ADVANCED :> b) @@ (CUSTOM :> c) @@ (NONEXISTENT :> d) :
        a \in choices[DEFAULT], b \in choices[ADVANCED],
        c \in choices[CUSTOM], d \in choices[NONEXISTENT]}

\* without a configuration directory there is no user template directory
Environments ==
    {[config_dir |-> c, user |-> u, cargo_manifest_dir |-> m, dev |-> d] :
        c \in BOOLEAN, m \in BOOLEAN, u \in TreesByName([n \in TemplateNames |-> UserTrees(n)]),
        d \in TreesByName([n \in TemplateNames |-> DevTrees(n)])}

\* the filesystem before the first invocation: the root and the current
\* directory, and possibly the base directory with an older project in it
EmptyDisk == (ROOT :> DirNode) @@ (CWD :> DirNode)
InitialDisks ==
    {EmptyDisk,
     (<<"base", "demo", "main.cpp">> :> TextNode(<<"old">>)) @@ (<<"base", "demo">> :> DirNode)
         @@ (BASE :> DirNode) @@ EmptyDisk}

\* without a configuration directory, no user template directory is looked for
Init ==
    /\ pc = "idle"
    /\ env \in {e \in Environments : e.config_dir \/ e.user[DEFAULT] = NoTree}
    /\ fs \in InitialDisks
    /\ fs0 = fs
    /\ calls = 0 /\ created = {}
    /\ args = Null /\ atCall = Null /\ phase = "none" /\ project_path = Null
    /\ source = <<>> /\ template = NoTemplate /\ processed = NoTemplate
    /\ todo = {} /\ written = {} /\ err = NoError
    /\ ldTree = Null /\ ldOrder = Null /\ ldResult = Null
    /\ sbFiles = Null /\ sbMap = Null /\ sbOnce = Null /\ sbTwice = Null
    /\ config = NoConfig /\ cfLast = Null

Next ==
    \/ Call
    \/ CheckDestination
    \/ LoadTemplate
    \/ SubstituteVariables
    \/ CreateProjectDir
    \/ CopyBegin
    \/ CopyFile
    \/ CopyEnd

Spec == Init /\ [][Next]_vars

-----------------------------------------------------------------------------
(* Claims about create_project *)

\* <config_dir>/procon_rs/templates/<name> exists
UserDirExists(e, name) == e.config_dir /\ exists(e.user[name], ROOT)

\* load_template has run in the invocation under way
Resolved == phase \in {"load", "substitute", "mkdir", "copy"}

\* the Template in hand was read from the files of `tree`
ReadFrom(tree) == template \in {load_from_path(tree, o).files : o \in Orders}

\* C1: when the requested name has both a user directory and a built-in, the
\* Template is loaded from the user directory and from nowhere else.
C1_UserDirectoryOverridesBuiltin ==
    (Resolved /\ args.template \in builtin_templates /\ UserDirExists(env, args.template))
    => /\ source = <<"user">>
       /\ ReadFrom(env.user[args.template])
       /\ \A k \in DOMAIN template : Head(template[k]) = "user:"

\* C1 witness: "default" has a user directory and a development built-in
\* directory, and the project was written from the user directory
C1_Witness ==
    /\ pc = "done" /\ args.template = DEFAULT
    /\ UserDirExists(env, DEFAULT)
    /\ env.cargo_manifest_dir /\ exists(env.dev[DEFAULT], ROOT)
    /\ source = <<"user">>
    /\ Head(fs[Append(project_path, "main.cpp")].text) = "user:"

\* the directory does not load: a required file is missing or is no text, or
\* a directory of the tree cannot be listed
Unloadable(tree) ==
    \/ Lacks(tree, "main.cpp") \/ Lacks(tree, "CMakeLists.txt")
    \/ ~read_to_string(tree, <<"main.cpp">>).ok
    \/ ~read_to_string(tree, <<"CMakeLists.txt">>).ok
    \/ \E p \in DOMAIN tree : tree[p].kind = "denied"

LoaderErrors(tree) == {load_from_path(tree, o).err : o \in Orders}

\* C2: when the requested name has a user directory that does not load, the
\* invocation fails with the loader's error, having tried the user directory
\* and nothing after it.
C2_NoFallbackFromUserDirectory ==
    (Resolved /\ UserDirExists(env, args.template) /\ Unloadable(env.user[args.template]))
    => /\ pc = "failed"
       /\ source = <<"user">>
       /\ err.kind \in {"TemplateNotFound", "Io"}
       /\ err \in LoaderErrors(env.user[args.template])
       /\ template = NoTemplate

\* C2 witness: the user directory of "default" lacks CMakeLists.txt, a
\* development built-in directory is there, and the invocation failed
C2_Witness ==
    /\ pc = "failed" /\ phase = "load" /\ args.template = DEFAULT
    /\ UserDirExists(env, DEFAULT) /\ Lacks(env.user[DEFAULT], "CMakeLists.txt")
    /\ env.cargo_manifest_dir /\ exists(env.dev[DEFAULT], ROOT)
    /\ err = TemplateNotFound(<<"CMakeLists.txt", " not found in template">>)

NotFoundKinds == {"TemplateNotFound", "TemplateNotFoundWithHint"}

\* C3: when "default" is requested and has no user directory, resolution does
\* not fail with a not-found error, whatever the environment.
C3_BuiltinDefaultAlwaysResolves ==
    (Resolved /\ args.template = DEFAULT /\ ~UserDirExists(env, DEFAULT))
    => ~(pc = "failed" /\ phase = "load" /\ err.kind \in NotFoundKinds)

\* C4: for a name that has neither a user directory nor a built-in,
\* find_template fails with TemplateNotFound of that name, and so does the
\* invocation once it resolves the name; the message is "Template '<name>' not found".
C4_UnknownNameIsTemplateNotFound ==
    /\ \A n \in TemplateNames :
          (phase # "none" /\ n \notin builtin_templates /\ ~UserDirExists(env, n))
          => /\ ~find_template(env, n).ok
             /\ find_template(env, n).err = TemplateNotFound(n)
    /\ (Resolved /\ args.template \notin builtin_templates
           /\ ~UserDirExists(env, args.template))
       => /\ pc = "failed"
          /\ err = TemplateNotFound(args.template)
          /\ to_string(err) = <<"Template '">> \o args.template \o <<"' not found">>

\* C4 witness: "nonexistent" was requested and the invocation failed
C4_Witness ==
    /\ pc = "failed" /\ phase = "load" /\ args.template = NONEXISTENT
    /\ to_string(err) = <<"Template '", "nonexistent", "' not found">>

\* C5: an invocation whose destination existed when it began, for one because
\* an earlier invocation with the same name and root returned Ok, fails with
\* ProjectExists, whatever the template; the message says "already exists".
C5_ExistingDestinationIsProjectExists ==
    (phase # "none" /\ (atCall.exists \/ atCall.created))
    => \/ pc = "check"
       \/ /\ pc = "failed"
          /\ phase = "check"
          /\ err = ProjectExists(args.name)
          /\ Contains(to_string(err), <<"' already exists">>)

\* C5 witness: a second invocation for a destination the first one created, asking
\* for a template that does not exist, failed with ProjectExists
C5_Witness ==
    /\ calls = 2 /\ pc = "failed" /\ atCall.created
    /\ args.template = NONEXISTENT
    /\ err = ProjectExists(<<"demo">>)

\* C6: an invocation that failed with ProjectExists has written nothing: the
\* filesystem is as the invocation found it.
C6_ProjectExistsWritesNothing ==
    (pc = "failed" /\ err.kind = "ProjectExists")
    => fs = fs0 /\ written = {}

\* C6 witness: the destination held a file of an older project, the invocation
\* failed with ProjectExists and the file is as it was
C6_Witness ==
    /\ pc = "failed" /\ err.kind = "ProjectExists"
    /\ project_path = <<"base", "demo">>
    /\ fs[<<"base", "demo", "main.cpp">>] = TextNode(<<"old">>)

\* C13: after an invocation with the "default" template returned Ok, the
\* destination is a directory holding main.cpp and CMakeLists.txt, and the
\* CMakeLists.txt holds neither {{CMAKE_VERSION}} nor {{CPP_STANDARD}} but the
\* cmake_minimum_version and cpp_standard of the configuration in force where
\* those stood.
C13_GeneratedCMakeHasConfigValues ==
    (pc = "done" /\ args.template = DEFAULT)
    => /\ is_dir(fs, project_path)
       /\ is_file(fs, Append(project_path, "main.cpp"))
       /\ is_file(fs, Append(project_path, "CMakeLists.txt"))
       /\ LET cmake == fs[Append(project_path, "CMakeLists.txt")].text
          IN  /\ ~Contains(cmake, TOKEN_CMAKE_VERSION)
              /\ ~Contains(cmake, TOKEN_CPP_STANDARD)
              /\ Contains(cmake, <<"cmake ">> \o config.project.cmake_minimum_version
                                     \o <<" std ">> \o config.project.cpp_standard)

\* C13 witness: a project made from the development directory of "default";
\* its CMakeLists.txt reads 3.16 and 17
C13_Witness ==
    /\ pc = "done" /\ args.template = DEFAULT /\ source = <<"dev">>
    /\ config.project = DefaultProjectConfig
    /\ fs[Append(project_path, "CMakeLists.txt")].text
           = <<"dev:", "cmake ", "3.16", " std ", "17", " project(", "demo", ")">>

-----------------------------------------------------------------------------
(* Specification of copy_to alone: Init draws a Template and a destination  *)
(* that does not exist.                                                    *)

KEY_ESCAPE == <<"..", "/", "notes.txt">>
CopyKeys == {KEY_MAIN, KEY_CMAKE, KEY_LIB_UTILS, KEY_LIB_MAIN, <<"lib">>, KEY_ESCAPE}

CopyTemplates == {[k \in K |-> <<"content of ">> \o k] : K \in SUBSET CopyKeys}

CopyDisks ==
    {EmptyDisk,
     (BASE :> DirNode) @@ EmptyDisk,
     (<<"base", "other.txt">> :> TextNode(<<"other">>)) @@ (BASE :> DirNode) @@ EmptyDisk}

CopyDestinations == {<<"base", "out">>, <<"base", "new", "out">>}

InitCopy ==
    /\ pc = "copy"
    /\ processed \in CopyTemplates
    /\ fs \in CopyDisks
    /\ fs0 = fs
    /\ project_path \in {d \in CopyDestinations : ~exists(fs, d)}
    /\ env = Null /\ calls = 0 /\ created = {} /\ args = Null /\ atCall = Null
    /\ phase = "none" /\ source = <<>> /\ template = NoTemplate
    /\ todo = {} /\ written = {} /\ err = NoError
    /\ ldTree = Null /\ ldOrder = Null /\ ldResult = Null
    /\ sbFiles = Null /\ sbMap = Null /\ sbOnce = Null /\ sbTwice = Null
    /\ config = Null /\ cfLast = Null

NextCopy ==
    \/ CopyBegin
    \/ CopyFile
    \/ CopyEnd

SpecCopy == InitCopy /\ [][NextCopy]_vars

\* a key as the data model has it: a relative path with '/' separators and no
\* empty, "." or ".." component
WellFormedKey(k) ==
    /\ k # <<>>
    /\ JoinPath(Components(k)) = k
    /\ \A i \in 1..Len(k) : k[i] # ".."

IsPrefix(p, q) == Len(p) <= Len(q) /\ SubSeq(q, 1, Len(p)) = p

Below(fsys, dir) == {p \in DOMAIN fsys : Len(p) > Len(dir) /\ IsPrefix(dir, p)}

RelativeTo(dir, p) == SubSeq(p, Len(dir) + 1, Len(p))

\* C9: after copy_to returned Ok for a Template of well-formed keys and a
\* destination that did not exist, the regular files below the destination are,
\* by relative path, exactly the keys, each with its key's content; every
\* directory below it leads to one of them; nothing outside was touched but the
\* missing directories on the way to the destination.
C9_CopyRoundTrip ==
    (pc = "done" /\ phase = "copy" /\ ~exists(fs0, project_path)
        /\ \A k \in DOMAIN processed : WellFormedKey(k))
    => LET files == {p \in Below(fs, project_path) : is_file(fs, p)}
       IN  /\ is_dir(fs, project_path)
           /\ {JoinPath(RelativeTo(project_path, p)) : p \in files} = DOMAIN processed
           /\ \A p \in files :
                 fs[p].text = processed[JoinPath(RelativeTo(project_path, p))]
           /\ \A p \in Below(fs, project_path) \ files :
                 is_dir(fs, p) /\ \E q \in files : IsPrefix(p, q)
           /\ \A p \in DOMAIN fs0 : exists(fs, p) /\ fs[p] = fs0[p]
           /\ \A p \in DOMAIN fs \ DOMAIN fs0 : IsPrefix(p, project_path) \/ IsPrefix(project_path, p)

\* C9 witness: a Template with files in a subdirectory was copied to a
\* destination whose parent did not exist either
C9_Witness ==
    /\ pc = "done" /\ phase = "copy"
    /\ ~exists(fs0, parent(project_path))
    /\ DOMAIN processed = {KEY_MAIN, KEY_CMAKE, KEY_LIB_UTILS, KEY_LIB_MAIN}
    /\ fs[Append(project_path, "lib")] = DirNode
    /\ fs[project_path \o <<"lib", "utils.hpp">>].text = processed[KEY_LIB_UTILS]

-----------------------------------------------------------------------------
(* Claims about where create_project writes *)

\* an invocation that has a project path: it got past current_dir()
HasDestination == phase # "none" /\ ~(pc = "failed" /\ phase = "call")

\* destination_root/name, or current_dir/name when no root is given
EffectiveDestination ==
    (IF args.path = NoPath THEN CWD ELSE args.path) \o args.name

\* what the invocation under way has added to the filesystem
Added == DOMAIN fs \ DOMAIN fs0

\* C14 as stated: the destination is root/name or current_dir/name, and every
\* directory and file the invocation creates lies at or below it.
C14_CreatesOnlyBelowDestination ==
    HasDestination
    => /\ project_path = EffectiveDestination
       /\ \A p \in Added : IsPrefix(project_path, p)

\* C14 (amended): the destination is root/name or current_dir/name; what the
\* invocation creates lies at or below it, but for the missing directories
\* above it, which are created as directories; nothing that existed is changed.
C14_CreatesBelowOrOnTheWay ==
    HasDestination
    => /\ project_path = EffectiveDestination
       /\ \A p \in Added :
             IsPrefix(project_path, p) \/ (IsPrefix(p, project_path) /\ fs[p] = DirNode)
       /\ \A p \in DOMAIN fs0 : exists(fs, p) /\ fs[p] = fs0[p]
       /\ written = Added

\* C14 witness: a project made under a destination root that did not exist
C14_Witness ==
    /\ pc = "done" /\ args.path = BASE /\ ~exists(fs0, BASE)
    /\ project_path = <<"base", "demo">>
    /\ is_dir(fs, BASE)
    /\ is_file(fs, <<"base", "demo", "lib", "utils.hpp">>)
    /\ Added = {BASE, <<"base", "demo">>, <<"base", "demo", "main.cpp">>,
                <<"base", "demo", "CMakeLists.txt">>, <<"base", "demo", "lib">>,
                <<"base", "demo", "lib", "utils.hpp">>}

-----------------------------------------------------------------------------
(* Claims about the errors of create_project *)

\* the variants of ProconError the claim allows a failing invocation
ErrorKinds == {"ProjectExists", "TemplateNotFound", "Io"}

\* the name was resolved to no directory: no user directory, and no
\* development directory of a built-in name
Unresolved(e, name) ==
    /\ ~UserDirExists(e, name)
    /\ ~(name \in builtin_templates /\ e.cargo_manifest_dir /\ exists(e.dev[name], ROOT))

\* C15: a failed invocation holds one error, of kind ProjectExists,
\* TemplateNotFound or Io; when it failed because the name was not resolved,
\* a built-in name included, the kind is TemplateNotFound.
C15_ErrorIsOneOfThreeKinds ==
    pc = "failed"
    => /\ err.kind \in ErrorKinds
       /\ (phase = "load" /\ Unresolved(env, args.template)) => err.kind = "TemplateNotFound"

-----------------------------------------------------------------------------
(* Claims about a copy_to that fails *)

\* the keys whose files copy_to has written: those its loop has visited
CopiedKeys == IF todo = {} THEN {} ELSE DOMAIN processed \ todo

\* C16: when copy_to has failed, the error is Io; it failed at the first
\* directory or file it could not make, so that the files on disk are those of
\* the keys visited before, with their contents, and the key that failed and
\* the keys after it have none; what was written before the failure is still
\* there.
C16_FailedCopyStopsAndKeeps ==
    (pc = "failed" /\ phase = "copy")
    => /\ err.kind = "Io"
       /\ \A p \in written : exists(fs, p)
       /\ {p \in written : is_file(fs, p)} = {join(project_path, k) : k \in CopiedKeys}
       /\ \A k \in CopiedKeys : fs[join(project_path, k)].text = processed[k]
       /\ is_dir(fs, project_path) => project_path \in written

\* C16 witness: the write of a file failed after main.cpp was written; main.cpp
\* is on disk and two files of the Template are not
C16_Witness ==
    /\ pc = "failed" /\ phase = "copy" /\ err = Io("write")
    /\ KEY_MAIN \in CopiedKeys
    /\ Cardinality(todo) = 2
    /\ fs[join(project_path, KEY_MAIN)].text = processed[KEY_MAIN]
    /\ \A k \in todo : ~exists(fs, join(project_path, k))

-----------------------------------------------------------------------------
(* Specification of create_project with another actor on the filesystem:    *)
(* between the existence check and the first write of an invocation, the    *)
(* actor may create the destination, with a main.cpp and a file of its own. *)

EXTERNAL == <<"external">>

ExternalCreate ==
    /\ pc \in {"load", "substitute", "mkdir"}
    /\ ~exists(fs, project_path) /\ ~Blocked(fs, project_path)
    /\ LET ds == MissingDirs(fs, project_path)
       IN  fs' = (Append(project_path, "other.txt") :> TextNode(EXTERNAL))
                     @@ (Append(project_path, "main.cpp") :> TextNode(EXTERNAL))
                     @@ MakeDirs(fs, ds, Len(ds))
    /\ UNCHANGED <<pc, env, fs0, calls, created, args, atCall, phase, project_path, source,
                   template, processed, todo, written, err, ldVars, sbVars, cfVars>>

NextRace ==
    \/ Next
    \/ ExternalCreate

SpecRace == Init /\ [][NextRace]_vars

\* the other actor created the destination during the invocation under way
Intruded ==
    /\ HasDestination
    /\ exists(fs, Append(project_path, "other.txt"))
    /\ ~exists(fs0, Append(project_path, "other.txt"))

\* C17: ProjectExists comes from the check at the start and from nowhere else;
\* an invocation whose destination was created by another actor after the
\* check does not fail with ProjectExists, and when it returns Ok it has
\* written every file of the Template into that destination.
C17_CheckedOnceAtStart ==
    /\ (pc = "failed" /\ err.kind = "ProjectExists") => phase = "check"
    /\ Intruded => ~(pc = "failed" /\ err.kind = "ProjectExists")
    /\ (Intruded /\ pc = "done")
          => \A k \in DOMAIN processed : fs[join(project_path, k)].text = processed[k]

\* C17 witness: the destination was created by the other actor after the
\* check; the invocation returned Ok, having overwritten the actor's main.cpp
\* and left its other file
C17_Witness ==
    /\ pc = "done" /\ Intruded
    /\ ~atCall.exists
    /\ fs[Append(project_path, "other.txt")] = TextNode(EXTERNAL)
    /\ fs[Append(project_path, "main.cpp")].text = processed[KEY_MAIN]
    /\ Append(project_path, "main.cpp") \in written

-----------------------------------------------------------------------------
(* Claims about the files of a project made from "default" *)

\* C18: find_template succeeds for "default", with or without a user directory
\* of that name.
C18_FindTemplateFindsDefault ==
    (Resolved /\ args.template = DEFAULT) => find_template(env, DEFAULT).ok

\* the directory load_template reads "default" from
DefaultSourceTree ==
    IF UserDirExists(env, DEFAULT) THEN env.user[DEFAULT] ELSE env.dev[DEFAULT]

\* C19 as stated: a project made from "default" holds main.cpp, CMakeLists.txt
\* and .gitignore.
C19_DefaultProjectHasGitignore ==
    (pc = "done" /\ args.template = DEFAULT)
    => /\ is_file(fs, Append(project_path, "main.cpp"))
       /\ is_file(fs, Append(project_path, "CMakeLists.txt"))
       /\ is_file(fs, Append(project_path, ".gitignore"))

\* C19 (amended): a project made from "default" holds main.cpp and
\* CMakeLists.txt, and holds .gitignore exactly when the directory the Template
\* was loaded from holds a .gitignore that reads as text.
C19_DefaultProjectHasFilesOfItsSource ==
    (pc = "done" /\ args.template = DEFAULT)
    => /\ is_file(fs, Append(project_path, "main.cpp"))
       /\ is_file(fs, Append(project_path, "CMakeLists.txt"))
       /\ is_file(fs, Append(project_path, ".gitignore"))
             <=> read_to_string(DefaultSourceTree, <<".gitignore">>).ok

\* C19 witness: a project made from the development directory of "default",
\* which holds .gitignore
C19_Witness ==
    /\ pc = "done" /\ args.template = DEFAULT /\ source = <<"dev">>
    /\ is_file(DefaultSourceTree, <<".gitignore">>)
    /\ fs[Append(project_path, ".gitignore")].text = <<"dev:", "build/">>
    /\ is_file(fs, Append(project_path, "main.cpp"))

-----------------------------------------------------------------------------
(* Specification of Config alone: set and get on a Config that starts as    *)
(* Config::default().  cfLast holds the last set, with the Config it was     *)
(* applied to, and the get made since, if any.                               *)

UNKNOWN_KEY == "unknown.key"
ConfigCallKeys == ConfigKeys \cup {UNKNOWN_KEY}
ConfigValues == {<<"custom">>, <<"/", "custom", "/", "path">>}

NoGet == [key |-> "", result |-> None]

InitConfig ==
    /\ pc = "config"
    /\ \E config_dir \in BOOLEAN :
          /\ config = Config_default(config_dir)
          /\ cfLast = [set |-> [key |-> "", value |-> <<>>, ok |-> FALSE, err |-> NoError,
                                before |-> config],
                       got |-> NoGet]
    /\ env = Null /\ fs = Null /\ fs0 = Null /\ calls = 0 /\ created = {}
    /\ args = Null /\ atCall = Null /\ phase = "none" /\ project_path = Null
    /\ source = <<>> /\ template = NoTemplate /\ processed = NoTemplate
    /\ todo = {} /\ written = {} /\ err = NoError
    /\ ldTree = Null /\ ldOrder = Null /\ ldResult = Null
    /\ sbFiles = Null /\ sbMap = Null /\ sbOnce = Null /\ sbTwice = Null

\* config.set(key, value)
ConfigSet ==
    /\ pc = "config"
    /\ \E key \in ConfigCallKeys, value \in ConfigValues :
          LET result == set(config, key, value)
          IN  /\ config' = result.config
              /\ cfLast' = [set |-> [key |-> key, value |-> value, ok |-> result.ok,
                                     err |-> result.err, before |-> config],
                            got |-> NoGet]
    /\ UNCHANGED <<pc, ldVars, sbVars, newVars>>

\* config.get(key)
ConfigGet ==
    /\ pc = "config"
    /\ \E key \in ConfigCallKeys :
          cfLast' = [cfLast EXCEPT !.got = [key |-> key, result |-> get(config, key)]]
    /\ UNCHANGED <<pc, config, ldVars, sbVars, newVars>>

NextConfig ==
    \/ ConfigSet
    \/ ConfigGet

SpecConfig == InitConfig /\ [][NextConfig]_vars

\* C20: after a set(key, v) that returned Ok, whatever went before, the key is
\* one of the four, get(key) returns v, and get of every other key returns
\* what it returned before the set.
C20_SetGetRoundTrip ==
    (pc = "config" /\ cfLast.set.ok)
    => /\ cfLast.set.key \in ConfigKeys
       /\ get(config, cfLast.set.key) = Some(cfLast.set.value)
       /\ \A k \in ConfigCallKeys \ {cfLast.set.key} :
             get(config, k) = get(cfLast.set.before, k)
       /\ cfLast.got.key = cfLast.set.key => cfLast.got.result = Some(cfLast.set.value)
       /\ cfLast.got.key \in ConfigCallKeys \ {cfLast.set.key}
             => cfLast.got.result = get(cfLast.set.before, cfLast.got.key)

\* C20 witness: after other sets, template.path was set and then read back
C20_Witness ==
    /\ pc = "config" /\ cfLast.set.ok
    /\ cfLast.set.key = KEY_TEMPLATE_PATH
    /\ cfLast.set.value = <<"/", "custom", "/", "path">>
    /\ cfLast.got = [key |-> KEY_TEMPLATE_PATH, result |-> Some(<<"/", "custom", "/", "path">>)]
    /\ config.project.cpp_standard = <<"custom">>
    /\ config.project.cmake_minimum_version = <<"3.16">>

\* a set or a get with a key outside the four has been made
UnknownKey(key) == key # "" /\ key \notin ConfigKeys

\* C21: a set with a key outside the four known keys returns ConfigError, the
\* message containing "Unknown configuration key", and leaves every field of the
\* Config as it was; a get with such a key returns None.
C21_UnknownKeyIsRejected ==
    pc = "config"
    => /\ UnknownKey(cfLast.set.key)
             => /\ ~cfLast.set.ok
                /\ cfLast.set.err.kind = "ConfigError"
                /\ Contains(to_string(cfLast.set.err), <<"Unknown configuration key">>)
                /\ config = cfLast.set.before
       /\ UnknownKey(cfLast.got.key) => cfLast.got.result = None
       /\ \A k \in ConfigCallKeys \ ConfigKeys : get(config, k) = None

\* C21 witness: after sets that changed the Config, a set of "unknown.key" was
\* refused and a get of it returned None
C21_Witness ==
    /\ pc = "config"
    /\ cfLast.set.key = UNKNOWN_KEY /\ ~cfLast.set.ok
    /\ to_string(cfLast.set.err)
           = <<"Configuration error: ", "Unknown configuration key", ": ", "unknown.key">>
    /\ config.project.cpp_standard = <<"custom">>
    /\ config.template.default = <<"/", "custom", "/", "path">>
    /\ config = cfLast.set.before
    /\ cfLast.got = [key |-> UNKNOWN_KEY, result |-> None]

-----------------------------------------------------------------------------
(* Claims about the walk of the loader *)

\* the keys of a Template that denote the file `name` of the template root
RootKeys(files, name) == {k \in DOMAIN files : Components(k) = <<name>>}

\* C22: the skip of the walk applies at the root only: main.cpp and
\* CMakeLists.txt of a subdirectory that read as text are loaded under
\* lib/main.cpp and lib/CMakeLists.txt with their own contents, and the two
\* required files of the root have one key each, with the content the loop over
\* the required files read.
C22_SkipAppliesAtRootOnly ==
    (pc = "load_done" /\ ldResult.ok)
    => /\ \A name \in {"main.cpp", "CMakeLists.txt"} :
             /\ read_to_string(ldTree, <<"lib", name>>).ok
                    => /\ <<"lib", "/", name>> \in DOMAIN ldResult.files
                       /\ ldResult.files[<<"lib", "/", name>>] = ldTree[<<"lib", name>>].text
             /\ RootKeys(ldResult.files, name) = {<<name>>}
             /\ ldResult.files[<<name>>] = LoadRequired(ldTree, 1, <<>>).files[<<name>>]
             /\ ldResult.files[<<name>>] = ldTree[<<name>>].text

\* C22 witness: a tree with main.cpp and CMakeLists.txt at the root and in
\* lib, loaded: four keys, the files of lib with contents of their own
C22_Witness ==
    /\ pc = "load_done" /\ ldResult.ok
    /\ DOMAIN ldResult.files = {KEY_MAIN, KEY_CMAKE, KEY_LIB_MAIN, KEY_LIB_CMAKE}
    /\ ldResult.files[KEY_LIB_MAIN] = <<"src:", "// lib/main.cpp">>
    /\ ldResult.files[KEY_LIB_CMAKE] = <<"src:", "# lib/CMakeLists.txt">>
    /\ ldResult.files[KEY_MAIN] = <<"src:", "// ", "{{", "PROJECT_NAME", "}}">>
    /\ ldResult.files[KEY_CMAKE] # ldResult.files[KEY_LIB_CMAKE]

\* the two required files read as text and every directory can be listed
LoadsOtherwise(tree) ==
    /\ IsSourceDirectory(tree)
    /\ read_to_string(tree, <<"main.cpp">>).ok /\ read_to_string(tree, <<"CMakeLists.txt">>).ok
    /\ \A p \in DOMAIN tree : tree[p].kind # "denied"

\* the files of a tree that do not decode as text
Undecodable(tree) == {p \in DOMAIN tree : tree[p].kind = "binary"}

\* C23: a file other than the two required ones that does not decode as text
\* does not fail the load: the load succeeds, the Template has no key for the
\* file, and every file that reads as text has its key and content.
C23_UndecodableFileIsSkipped ==
    (pc = "load_done" /\ LoadsOtherwise(ldTree))
    => /\ ldResult.ok
       /\ \A p \in Undecodable(ldTree) : JoinPath(p) \notin DOMAIN ldResult.files
       /\ DOMAIN ldResult.files = {JoinPath(p) : p \in RegularFiles(ldTree) \ Undecodable(ldTree)}
       /\ \A p \in RegularFiles(ldTree) \ Undecodable(ldTree) :
             ldResult.files[JoinPath(p)] = ldTree[p].text

\* C23 witness: .gitignore and lib/main.cpp do not decode, lib/utils.hpp does;
\* the load succeeded with the three files that read as text
C23_Witness ==
    /\ pc = "load_done" /\ ldResult.ok
    /\ Undecodable(ldTree) = {<<".gitignore">>, <<"lib", "main.cpp">>}
    /\ DOMAIN ldResult.files = {KEY_MAIN, KEY_CMAKE, KEY_LIB_UTILS}
    /\ ldResult.files[KEY_LIB_UTILS] = ldTree[<<"lib", "utils.hpp">>].text

-----------------------------------------------------------------------------
(* Specification of the loader on directories with file names that are no   *)
(* valid UTF-8: Init draws a tree with the two required files and, at the   *)
(* root and in lib, files of the two names; LoadNames applies               *)
(* load_from_path to it under some enumeration order.                       *)

NameTreePaths == {ROOT, <<"main.cpp">>, <<"CMakeLists.txt">>, <<NAME_E9>>, <<NAME_E8>>,
                  <<"lib">>, <<"lib", NAME_E9>>, <<"lib", NAME_E8>>}

\* the root with the required files, and with every file in a directory
NameTreeShapes ==
    {P \in SUBSET NameTreePaths :
        /\ {ROOT, <<"main.cpp">>, <<"CMakeLists.txt">>} \subseteq P
        /\ \A q \in P : Len(q) = 2 => <<"lib">> \in P}

NameTrees(tag) ==
    {[q \in P |-> IF q \in {ROOT, <<"lib">>} THEN DirNode ELSE TextNode(TextOf(tag, q))] :
        P \in NameTreeShapes}

NameEntrySet == {"main.cpp", "CMakeLists.txt", NAME_E9, NAME_E8, "lib"}

NameOrders == {o \in [1..Cardinality(NameEntrySet) -> NameEntrySet] :
                  \A i, j \in DOMAIN o : i # j => o[i] # o[j]}

InitNames ==
    /\ pc = "load"
    /\ ldTree \in NameTrees("src:")
    /\ ldOrder = Null
    /\ ldResult = Null
    /\ sbFiles = Null /\ sbMap = Null /\ sbOnce = Null /\ sbTwice = Null
    /\ NewIdle

LoadNames ==
    /\ pc = "load"
    /\ pc' = "load_done"
    /\ ldOrder' \in NameOrders
    /\ ldResult' = load_from_path(ldTree, ldOrder')
    /\ UNCHANGED <<ldTree, sbVars, newVars, cfVars>>

NextNames == LoadNames

SpecNames == InitNames /\ [][NextNames]_vars

\* C24: for a fixed source directory tree, load_from_path returns the same
\* result, and so the same mapping from paths to contents, whatever the order
\* in which read_dir yields the entries of each directory.
C24_SameMappingForEveryOrder ==
    pc = "load_done" => \A o \in NameOrders : load_from_path(ldTree, o) = ldResult

-----------------------------------------------------------------------------
(* Claims about the order of the phases of create_project *)

\* the place of a phase in execute: lines 17-23, 26-28, 31, 34, 37, 38
Rank(ph) ==
    CASE ph = "check" -> 1
      [] ph = "load" -> 2
      [] ph = "substitute" -> 3
      [] ph = "mkdir" -> 4
      [] ph = "copy" -> 5
      [] OTHER -> 0

\* a step of an invocation enters the phase after the one it is in, or stays
\* in copy_to; after a failure or a return, the only step is a new invocation
PhaseStep ==
    \/ /\ pc \in {"idle", "done", "failed"}
       /\ phase' = "call" /\ calls' = calls + 1
    \/ /\ pc \notin {"idle", "done", "failed"}
       /\ \/ Rank(phase') = Rank(phase) + 1
          \/ phase' = "copy" /\ phase = "copy"

\* what each phase finds done and not yet done
PhaseState ==
    /\ Rank(phase) <= 1 => template = NoTemplate /\ source = <<>>
    /\ Rank(phase) <= 2 => processed = NoTemplate
    /\ Rank(phase) <= 3 => written = {} /\ fs = fs0
    /\ (Rank(phase) = 2 /\ pc # "failed") => template # NoTemplate
    /\ Rank(phase) >= 3
          => /\ template # NoTemplate
             /\ processed = process_template_variables(template, args.name, config.project)
    /\ (pc = "failed" /\ Rank(phase) = 1) => err.kind = "ProjectExists"

\* C25: in an invocation the destination check comes before the template is
\* resolved and loaded, loading before substitution, and the substitution of
\* every file before the destination directory is made or a file is written;
\* after a phase has failed no phase is entered.
C25_PhasesInOrder == [][PhaseStep]_vars /\ []PhaseState

\* C25 witness: a first invocation went through every phase and returned Ok; a
\* second one failed loading its template and has written nothing
C25_Witness ==
    /\ calls = 2 /\ created # {}
    /\ pc = "failed" /\ phase = "load"
    /\ processed = NoTemplate /\ written = {} /\ fs = fs0
    /\ \E d \in created : is_file(fs, Append(d, "main.cpp"))

\* C26: when an invocation has failed resolving or loading its template,
\* whatever the error, the destination directory has not been made and the
\* filesystem is as the invocation found it.
C26_FailedLoadWritesNothing ==
    (pc = "failed" /\ phase = "load")
    => /\ ~exists(fs, project_path)
       /\ fs = fs0
       /\ written = {}

\* C26 witness: a user directory whose main.cpp does not read as text made the
\* load fail with Io; the destination root is there, the destination is not
C26_Witness ==
    /\ pc = "failed" /\ phase = "load" /\ err = Io("read")
    /\ args.template = DEFAULT /\ source = <<"user">>
    /\ args.path = BASE /\ is_dir(fs, BASE) /\ ~exists(fs, <<"base", "demo">>)
    /\ calls = 2 /\ fs = fs0

-----------------------------------------------------------------------------
(* Claims about Template::apply_variables *)

\* a substitution map that gives the project name for {{PROJECT_NAME}} and
\* leaves the two other tokens standing
NameOnlyMap(name) ==
    [name |-> name,
     config |-> [cmake_minimum_version |-> TOKEN_CMAKE_VERSION, cpp_standard |-> TOKEN_CPP_STANDARD]]

\* the receiver of apply_variables is the same before and after the call
ReceiverKept == pc' = "applied" => sbFiles' = sbFiles

\* C27: apply_variables(name) returns a Template with the keys of the receiver
\* in which every {{PROJECT_NAME}} of every file is replaced by name and every
\* other text, {{CMAKE_VERSION}} and {{CPP_STANDARD}} included, is as it was;
\* the receiver is not modified.
C27_ApplyVariablesReplacesNameOnly ==
    /\ [](pc = "applied"
            => /\ DOMAIN sbOnce = DOMAIN sbFiles
               /\ \A k \in DOMAIN sbFiles :
                     sbOnce[k] = SinglePass(sbFiles[k], NameOnlyMap(sbMap.name))
               /\ sbOnce[KEY_CMAKE] = sbFiles[KEY_CMAKE])
    /\ [][ReceiverKept]_vars

\* C27 witness: the name "x" was applied to a Template whose main.cpp holds
\* {{PROJECT_NAME}}; CMakeLists.txt still holds its three tokens
C27_Witness ==
    /\ pc = "applied" /\ sbMap.name = <<"x">>
    /\ Contains(sbFiles[KEY_MAIN], TOKEN_PROJECT_NAME)
    /\ ~Contains(sbOnce[KEY_MAIN], TOKEN_PROJECT_NAME)
    /\ sbOnce[KEY_LIB_UTILS] = <<"//", "x", " ", "x">>
    /\ sbOnce[KEY_CMAKE] = TOKEN_CMAKE_VERSION \o TOKEN_AUTHOR \o TOKEN_CPP_STANDARD

-----------------------------------------------------------------------------
(* Claims about the keys of a loaded Template *)

\* the key the walk makes for the file at path p of the source directory
KeyOf(p) == JoinPath([i \in 1..Len(p) |-> to_string_lossy(p[i])])

\* C28: a Template load_from_path returned holds main.cpp and CMakeLists.txt;
\* every key is a relative path in normal form, with '/' separators and no
\* empty, "." or ".." component, and is the path of a file of the source
\* directory; no two files of the source directory have the same key.
C28_KeysAreFilesOfTheTree ==
    (pc = "load_done" /\ ldResult.ok)
    => /\ {KEY_MAIN, KEY_CMAKE} \subseteq DOMAIN ldResult.files
       /\ \A k \in DOMAIN ldResult.files :
             /\ WellFormedKey(k)
             /\ \E p \in RegularFiles(ldTree) : JoinPath(p) = k
       /\ \A p, q \in RegularFiles(ldTree) : p # q => KeyOf(p) # KeyOf(q)

-----------------------------------------------------------------------------
(* Specification of create_project that runs on: an invocation that has     *)
(* begun takes its next step.  The code is sequential and blocking, and no  *)
(* step waits for anything but the filesystem call it makes.                *)

Running == pc \in {"check", "load", "substitute", "mkdir", "copy", "copy_files"}
Terminated == pc \in {"done", "failed"}

PcValues == {"idle", "check", "load", "substitute", "mkdir", "copy", "copy_files", "done",
             "failed"}

\* an invocation under way comes to another statement: to the next one, to a
\* return, or out of the loop of copy_to
MovesOn == Running /\ pc' \in PcValues

SpecFair == Init /\ [][Next]_vars /\ WF_pc(MovesOn)

\* Done holds no error and has been through every file; Failed holds one
TerminalState ==
    /\ pc = "done" => err = NoError /\ todo = {} /\ project_path \in created
    /\ pc = "failed" => err # NoError /\ err.kind # "none"

\* a step goes from a state of the invocation to the next one, or writes the
\* file of one key not written before and is done with the key; only a new
\* invocation leaves a terminal state
StepOnce ==
    \/ pc \in {"idle", "done", "failed"} /\ calls' = calls + 1
    \/ pc = "check" /\ pc' \in {"load", "failed"}
    \/ pc = "load" /\ pc' \in {"substitute", "failed"}
    \/ pc = "substitute" /\ pc' = "mkdir"
    \/ pc = "mkdir" /\ pc' \in {"copy", "failed"}
    \/ pc = "copy" /\ pc' \in {"copy_files", "failed"}
    \/ /\ pc = "copy_files" /\ pc' = "copy_files"
       /\ \E k \in todo :
             /\ todo' = todo \ {k}
             /\ join(project_path, k) \notin written
             /\ join(project_path, k) \in written'
             /\ fs'[join(project_path, k)] = TextNode(processed[k])
    \/ pc = "copy_files" /\ pc' = "failed" /\ todo' = todo
    \/ pc = "copy_files" /\ pc' = "done" /\ todo = {}

\* C29: an invocation that has begun ends, as Done or as Failed with one
\* error, and stays there; it goes through its states in order, writes the
\* file of each key at most once, and repeats no step.
C29_TerminatesOnceNoRetry ==
    /\ Running ~> Terminated
    /\ []TerminalState
    /\ [][StepOnce]_vars

\* C29 witness: an invocation is Done, having written the three files of its
\* Template one after the other
C29_Witness ==
    /\ pc = "done" /\ calls = 1 /\ err = NoError
    /\ DOMAIN processed = {KEY_MAIN, KEY_CMAKE, KEY_LIB_UTILS}
    /\ \A k \in DOMAIN processed : join(project_path, k) \in written
    /\ created = {project_path}

====
